---- MODULE Spec2Model ----
(***************************************************************************)
(* Model of friend-rss (src/main.py): the site filter, the per-site        *)
(* aggregator, feed discovery with its feed-URL cache, and the process     *)
(* phase of FriendRSSAggregator.run with its worker pool.                  *)
(***************************************************************************)
EXTENDS Integers, Sequences, FiniteSets, TLC

VARIABLES
    \* ---- SiteFilter (src/main.py:280-309) ----
    block_sites,    \* SiteFilter.block_sites: sequence of regex patterns
    reverse,        \* SiteFilter.reverse: FALSE blacklist, TRUE whitelist
    url,            \* argument of is_blocked
    blocked,        \* value returned by is_blocked
    filter_pc,      \* "call" before is_blocked has run, "done" after
    \* ---- DataAggregator (src/main.py:554-647) ----
    max_posts,            \* DataAggregator.max_posts
    outdate_days,         \* DataAggregator.outdate_days
    timezone_correction,  \* DataAggregator.timezone_correction
    sort_by,              \* DataAggregator.sort_by: "pub_date" or "updated_at"
    cutoff_time,          \* DataAggregator.cutoff_time: << >> is None, else <<datetime>>
    clock,                \* the wall clock (UTC hours) read by get_beijing_time
    entries,              \* feed.entries handed to aggregate_feed
    site_posts,           \* site_data['posts'] returned by aggregate_feed
    agg_pc,               \* "call" before aggregate_feed has run, "done" after
    \* ---- parse_feed_time (src/main.py:53-92) ----
    time_tuple,           \* argument time_tuple: << >> is None, else <<UTC hours>>
    original_time_str,    \* argument original_time_str
    parsed_time,          \* << >>, or <<the datetime parse_feed_time returned>>
    time_pc,              \* "call" before parse_feed_time has run, "done" after
    \* ---- CacheManager (src/main.py:95-140) ----
    cache_has_feed_urls,  \* 'feed_urls' in CacheManager.cache
    feed_urls,            \* CacheManager.cache['feed_urls']: site URL -> feed URL
    \* ---- the network ----
    probe_net,            \* feed URL -> the answers a probe of it can get
    fetch_net,            \* feed URL -> the answers a fetch of it can get
    \* ---- RSSFetcher and FriendRSSAggregator (src/main.py:386-876) ----
    last_error,           \* RSSFetcher.last_error
    links,                \* all_links, as get_all_links returned it
    max_workers,          \* the configured MAX_WORKERS
    tasks,                \* the threads of control, one per link
    failed_sites,         \* FriendRSSAggregator.failed_sites
    all_sites,            \* the site data of the finished pipelines: all_sites of
                          \* run, and before a pool's as_completed is called the
                          \* results of the finished futures, as they finished
    waiting,              \* run has called as_completed on the futures of its pool
    final_data,           \* << >>, or <<the value run returns>>
    \* ---- get_all_links (src/main.py:684-768) ----
    scraped_links,        \* the links the scraper returns, page after page
    manual_links,         \* ConfigParser.get_manual_links()
    url_set,              \* url_set of get_all_links
    cursor,               \* position of the link get_all_links handles next
    \* ---- bookkeeping ----
    first_run,            \* << >>, or <<what an earlier run over the same input returned>>
    loaded_cache,         \* the cache as it was loaded
    history               \* the calls of find_feed_url that have returned

filterVars == <<block_sites, reverse, url, blocked, filter_pc>>

aggConfVars == <<max_posts, outdate_days, timezone_correction, sort_by, cutoff_time>>

aggVars == <<aggConfVars, clock, entries, site_posts, agg_pc>>

timeVars == <<time_tuple, original_time_str, parsed_time, time_pc>>

collectVars == <<scraped_links, manual_links, url_set, cursor>>

otherVars == <<filterVars, aggVars, timeVars, collectVars>>

cacheVars == <<cache_has_feed_urls, feed_urls>>

netVars == <<probe_net, fetch_net>>

harnessVars == <<first_run, loaded_cache, history>>

runVars ==
    <<last_error, links, max_workers, waiting, tasks, failed_sites, all_sites, final_data>>

vars == <<filterVars, aggVars, timeVars, collectVars, cacheVars, netVars, runVars, harnessVars>>

(***************************************************************************)
(* Strings the filter looks into are sequences of one-character strings.   *)
(***************************************************************************)
U_spam  == <<"h","t","t","p","s",":","/","/","s","p","a","m",".","e","x","a","m","p","l","e","/","f","e","e","d">>
U_other == <<"h","t","t","p","s",":","/","/","o","t","h","e","r",".","e","x","a","m","p","l","e","/","f","e","e","d">>
U_spamx == <<"h","t","t","p","s",":","/","/","s","p","a","m","x","e","x","a","m","p","l","e","/">>
U_blog  == <<"h","t","t","p",":","/","/","b","l","o","g",".","f","m">>

FilterUrls == {U_spam, U_other, U_spamx, U_blog}

P_spam  == <<"s","p","a","m","\\",".","e","x","a","m","p","l","e">>
P_spamd == <<"s","p","a","m",".","e","x">>
P_http  == <<"h","t","t","p",":">>
P_feed  == <<"/","f","e","e","d">>
P_none  == <<"z","z">>

FilterPatterns == {P_spam, P_spamd, P_http, P_feed, P_none}

\* longest pattern list the filter is given
MaxPatterns == 2

RECURSIVE MatchHere(_, _, _, _)
\* the pattern p from position i on matches the string s at position j:
\* a backslash makes the next character literal, a dot matches any
\* character, any other character matches itself
MatchHere(p, i, s, j) ==
    IF i > Len(p) THEN TRUE
    ELSE IF p[i] = "\\"
         THEN /\ i + 1 <= Len(p)
              /\ j <= Len(s)
              /\ s[j] = p[i + 1]
              /\ MatchHere(p, i + 2, s, j + 1)
    ELSE IF p[i] = "."
         THEN /\ j <= Len(s)
              /\ MatchHere(p, i + 1, s, j + 1)
    ELSE /\ j <= Len(s)
         /\ s[j] = p[i]
         /\ MatchHere(p, i + 1, s, j + 1)

\* re.search(pattern, url): the pattern matches somewhere in the string
re_search(p, s) == \E j \in 1..(Len(s) + 1) : MatchHere(p, 1, s, j)

RECURSIVE is_blocked_first_only(_, _, _, _)
\* a scan that gives up after the first pattern
is_blocked_first_only(pats, rev, u, k) ==
    IF k > Len(pats) \/ k > 1
    THEN (IF ~rev THEN FALSE ELSE TRUE)
    ELSE IF re_search(pats[k], u)
         THEN (IF ~rev THEN TRUE ELSE FALSE)
         ELSE is_blocked_first_only(pats, rev, u, k + 1)

\* a scan whose whitelist branches are the blacklist ones
is_blocked_not_inverted(pats, rev, u, k) ==
    \E n \in 1..Len(pats) : re_search(pats[n], u)

RECURSIVE is_blocked_from(_, _, _, _)
\* the loop of SiteFilter.is_blocked from the k-th pattern on
is_blocked_from(pats, rev, u, k) ==
    IF k > Len(pats)
    THEN (IF ~rev THEN FALSE ELSE TRUE)
    ELSE IF re_search(pats[k], u)
         THEN (IF ~rev THEN TRUE ELSE FALSE)
         ELSE is_blocked_from(pats, rev, u, k + 1)

is_blocked(pats, rev, u) == is_blocked_from(pats, rev, u, 1)

(***************************************************************************)
(* Times.  An instant is a whole number of hours; a datetime is its        *)
(* wall-clock reading together with the UTC offset it is labelled with.    *)
(* An optional value is a sequence of length 0 or 1.                       *)
(***************************************************************************)
\* BEIJING_TZ = timezone(timedelta(hours=8))
BEIJING_TZ == 8

HoursPerDay == 24

\* timedelta(days=d) in hours
timedelta_days(d) == d * HoursPerDay

\* get_beijing_time(): the clock reading converted to UTC+8
get_beijing_time(now) == [wall |-> now + BEIJING_TZ, off |-> BEIJING_TZ]

\* a < b on timezone-aware datetimes compares the instants
Before(a, b) == (a.wall - a.off) < (b.wall - b.off)

\* datetime.isoformat(): the wall-clock digits followed by the offset
isoformat(dt) == [digits |-> dt.wall, zone |-> dt.off]

\* a < b on isoformat strings: digits first, then the offset suffix
IsoLess(a, b) == a.digits < b.digits \/ (a.digits = b.digits /\ a.zone < b.zone)

\* a time string: empty (<< >>), not an RFC 822 date (ok = FALSE), or an
\* RFC 822 date with its wall-clock digits and its offset
NoStr == << >>
BadStr == <<[ok |-> FALSE, wall |-> 0, off |-> 0]>>
Rfc822(w, o) == <<[ok |-> TRUE, wall |-> w, off |-> o]>>

\* the conversion applied when the correction is on, with the sign flipped
utc_to_beijing_wrong_sign(t) == t - BEIJING_TZ

\* utc_dt.astimezone(BEIJING_TZ)
utc_to_beijing(t) == t + BEIJING_TZ

\* a normalizer that converts the instant the raw string names
parse_feed_time_converting(tuple, tz_correction, time_str, now) ==
    IF time_str # NoStr /\ time_str[1].ok
    THEN [wall |-> time_str[1].wall - time_str[1].off + BEIJING_TZ, off |-> BEIJING_TZ]
    ELSE IF tuple = << >>
         THEN get_beijing_time(now)
    ELSE [wall |-> utc_to_beijing(tuple[1]), off |-> BEIJING_TZ]

\* parse_feed_time(time_tuple, timezone_correction, original_time_str)
parse_feed_time(tuple, tz_correction, time_str, now) ==
    IF ~tz_correction /\ time_str # NoStr /\ time_str[1].ok
    THEN [wall |-> time_str[1].wall, off |-> BEIJING_TZ]
    ELSE IF tuple = << >>
         THEN get_beijing_time(now)
    ELSE IF tz_correction
         THEN [wall |-> utc_to_beijing(tuple[1]), off |-> BEIJING_TZ]
    ELSE [wall |-> tuple[1], off |-> BEIJING_TZ]

\* DataAggregator.__init__: the cutoff, computed once
CutoffOf(days, now) ==
    IF days > 0
    THEN <<[wall |-> get_beijing_time(now).wall - timedelta_days(days), off |-> BEIJING_TZ]>>
    ELSE << >>

\* the publication time aggregate_feed derives for an entry
PubTime(e, now) ==
    IF e.published_parsed # << >>
    THEN parse_feed_time(e.published_parsed, timezone_correction, e.published, now)
    ELSE IF e.updated_parsed # << >>
         THEN parse_feed_time(e.updated_parsed, timezone_correction, e.updated, now)
    ELSE get_beijing_time(now)

\* the update time aggregate_feed derives for an entry
UpdateTime(e, now) ==
    IF e.updated_parsed # << >>
    THEN parse_feed_time(e.updated_parsed, timezone_correction, e.updated, now)
    ELSE PubTime(e, now)

\* an age test that compares the update time instead
Expired_by_update(e, now) ==
    cutoff_time # << >> /\ Before(UpdateTime(e, now), cutoff_time[1])

\* the age test of aggregate_feed
Expired(e, now) ==
    cutoff_time # << >> /\ Before(PubTime(e, now), cutoff_time[1])

\* lines 607-614; the entries have no link, summary or author, so the post
\* gets the defaults
MakePost(e, now) ==
    [title |-> e.title,
     link |-> "",
     description |-> "",
     pub_date |-> isoformat(PubTime(e, now)),
     updated_at |-> isoformat(UpdateTime(e, now)),
     author |-> ""]

RECURSIVE CollectPosts(_, _, _)
\* the loop over feed.entries, from the k-th entry on
CollectPosts(es, k, now) ==
    IF k > Len(es) THEN << >>
    ELSE IF es[k].malformed \/ Expired(es[k], now)
         THEN CollectPosts(es, k + 1, now)
    ELSE <<MakePost(es[k], now)>> \o CollectPosts(es, k + 1, now)

SortKey(post) == IF sort_by = "pub_date" THEN post.pub_date ELSE post.updated_at

RECURSIVE InsertDesc(_, _)
\* p put into the descending sequence s after every post whose key is not
\* smaller than its own
InsertDesc(s, p) ==
    IF s = << >> THEN <<p>>
    ELSE IF IsoLess(SortKey(s[1]), SortKey(p))
         THEN <<p>> \o s
    ELSE <<s[1]>> \o InsertDesc(Tail(s), p)

RECURSIVE SortDescFrom(_, _, _)
SortDescFrom(ps, k, acc) ==
    IF k > Len(ps) THEN acc
    ELSE SortDescFrom(ps, k + 1, InsertDesc(acc, ps[k]))

\* a sort that leaves the list as it is
SortDesc_unsorted(ps) == ps

\* posts.sort(key=lambda x: x[self.sort_by], reverse=True): stable
SortDesc(ps) == SortDescFrom(ps, 1, << >>)

\* a truncation that keeps the tail of the list
Truncate_tail(ps) ==
    IF max_posts > 0 /\ Len(ps) > max_posts
    THEN SubSeq(ps, Len(ps) - max_posts + 1, Len(ps))
    ELSE ps

\* posts[:self.max_posts] if self.max_posts > 0 else posts
Truncate(ps) ==
    IF max_posts > 0
    THEN SubSeq(ps, 1, IF Len(ps) < max_posts THEN Len(ps) ELSE max_posts)
    ELSE ps

\* DataAggregator.aggregate_feed: the posts of the site record
aggregate_feed(es, now) == Truncate(SortDesc(CollectPosts(es, 1, now)))

\* ---- the aggregator called on its own ----

\* hours between building the aggregator and aggregating a feed
MaxClockDrift == 1

\* longest feed
MaxEntries == 3

BuiltAt == 72

\* an entry as feedparser hands it over: the parsed UTC tuples, the raw
\* strings, and whether handling it raises
Entry(pp, ps, up, us, m) ==
    [published_parsed |-> pp, published |-> ps,
     updated_parsed |-> up, updated |-> us, malformed |-> m]

\* a string in a format other than RFC 822 comes with the tuple feedparser
\* made of it; an RFC 822 string with wall clock w and offset o comes with
\* the tuple w - o
EntryShapes ==
    { Entry(<< >>, NoStr, << >>, NoStr, FALSE),
      Entry(<< >>, NoStr, << >>, NoStr, TRUE),
      Entry(<< >>, BadStr, << >>, NoStr, FALSE),
      Entry(<<40>>, BadStr, << >>, NoStr, FALSE),
      Entry(<<50>>, BadStr, <<60>>, BadStr, FALSE),
      Entry(<<66>>, Rfc822(60, 0 - 6), << >>, NoStr, FALSE),
      Entry(<<36>>, Rfc822(44, 8), <<60>>, BadStr, FALSE),
      Entry(<< >>, NoStr, <<60>>, Rfc822(60, 0), FALSE) }

WithTitles(shapes) ==
    [n \in 1..Len(shapes) |->
        [title |-> n, published_parsed |-> shapes[n].published_parsed,
         published |-> shapes[n].published,
         updated_parsed |-> shapes[n].updated_parsed,
         updated |-> shapes[n].updated, malformed |-> shapes[n].malformed]]

Feeds(shapeSet, maxLen) ==
    {WithTitles(f) : f \in UNION {[1..n -> shapeSet] : n \in 1..maxLen}}

----------------------------------------------------------------------------
(***************************************************************************)
(* URLs.  A site URL is a stem, which does not end in a slash, followed by *)
(* some slashes.  A feed URL is a stem and the path joined onto it.        *)
(***************************************************************************)
Stems == {"a", "b"}

\* most slashes a site URL ends in
MaxSlash == 1

SiteUrls == [stem : Stems, slashes : 0..MaxSlash]

\* str.rstrip('/')
rstrip_slash(u) == [u EXCEPT !.slashes = 0]

\* the key set_feed_url is called with by find_feed_url
cache_key(u) == rstrip_slash(u)

\* base_url if base_url.endswith('/') else base_url + '/'
base_url_normalized(u) == IF u.slashes > 0 THEN u ELSE [u EXCEPT !.slashes = 1]

\* urljoin(base, suffix) for a base that ends in a slash and a relative
\* suffix: the slashes the base ends in collapse into one
urljoin(base, suffix) == [stem |-> base.stem, path |-> suffix]

\* RSSFetcher.feed_suffixes, from the configuration
feed_suffixes == <<"feed", "atom.xml">>

\* a suffix only a manual link or a caller of find_feed_url gives
CustomSuffix == "rss.xml"

FeedPaths == {feed_suffixes[n] : n \in 1..Len(feed_suffixes)} \cup {CustomSuffix}

FeedUrls == [stem : Stems, path : FeedPaths]

(***************************************************************************)
(* The network.  What the check session gets back for a candidate: a       *)
(* response with its status, its content-type header and its body, or a    *)
(* timeout.  A content-type is its sequence of words and separators; a     *)
(* body is the one place where it holds something that looks like the      *)
(* start of a feed, the characters there and the position of the first of  *)
(* them (from 1), or << >> when it holds nothing of the kind.              *)
(***************************************************************************)
PR_feed    == [kind |-> "response", status |-> 200,
               ctype |-> <<"application", "/", "rss", "+", "xml">>, body |-> << >>]
PR_html    == [kind |-> "response", status |-> 200,
               ctype |-> <<"text", "/", "html">>, body |-> << >>]
PR_404     == [kind |-> "response", status |-> 404,
               ctype |-> <<"text", "/", "html">>, body |-> << >>]
PR_timeout == [kind |-> "timeout", status |-> 0, ctype |-> << >>, body |-> << >>]

\* a feed served as text/html that starts with <RSS
PR_sniffed == [kind |-> "response", status |-> 200,
               ctype |-> <<"text", "/", "html">>,
               body |-> <<[chars |-> <<"<", "R", "S", "S">>, at |-> 1]>>]
\* a page whose <rss begins at character 498
PR_late    == [kind |-> "response", status |-> 200,
               ctype |-> <<"text", "/", "html">>,
               body |-> <<[chars |-> <<"<", "r", "s", "s">>, at |-> 498]>>]
\* a response without content-type whose <rss begins at character 497
PR_in_time == [kind |-> "response", status |-> 200,
               ctype |-> << >>,
               body |-> <<[chars |-> <<"<", "r", "s", "s">>, at |-> 497]>>]
\* a feed whose content-type is written in capitals
PR_atom    == [kind |-> "response", status |-> 200,
               ctype |-> <<"Application", "/", "Atom", "+", "XML">>, body |-> << >>]
\* an error page served as a feed
PR_500_xml == [kind |-> "response", status |-> 500,
               ctype |-> <<"application", "/", "rss", "+", "xml">>,
               body |-> <<[chars |-> <<"<", "r", "s", "s">>, at |-> 1]>>]

\* str.lower() on the words and characters of the samples
lower(w) ==
    CASE w = "Application" -> "application"
      [] w = "Atom" -> "atom"
      [] w = "XML" -> "xml"
      [] w = "R" -> "r"
      [] w = "S" -> "s"
      [] OTHER -> w

\* response.text[:500]
SniffLen == 500

\* 'xml' in content_type or 'rss' in content_type or 'feed' in content_type
ctype_is_feed(ctype) ==
    \E n \in DOMAIN ctype : lower(ctype[n]) \in {"xml", "rss", "feed"}

\* '<?xml' in text_lower or '<rss' in text_lower or '<feed' in text_lower
body_is_feed(body) ==
    /\ body # << >>
    /\ body[1].at + Len(body[1].chars) - 1 <= SniffLen
    /\ [n \in DOMAIN body[1].chars |-> lower(body[1].chars[n])]
            \in {<<"<", "?", "x", "m", "l">>, <<"<", "r", "s", "s">>,
                 <<"<", "f", "e", "e", "d">>}

\* a reason string; None is the empty tuple
NoError == << >>
HttpError(status) == <<"HTTP", status>>

\* a reading of the body that is sensitive to case
is_feed_as_written(r) ==
    /\ r.kind = "response"
    /\ r.status = 200
    /\ (ctype_is_feed(r.ctype)
        \/ (r.body # << >> /\ r.body[1].chars = <<"<", "r", "s", "s">>
            /\ r.body[1].at + Len(r.body[1].chars) - 1 <= SniffLen))

\* the value _check_feed_url returns
is_feed(r) ==
    /\ r.kind = "response"
    /\ r.status = 200
    /\ (ctype_is_feed(r.ctype) \/ body_is_feed(r.body))

\* RSSFetcher.last_error after _check_feed_url got r
check_error(r, err) ==
    IF r.kind # "response" THEN err
    ELSE IF r.status # 200 THEN HttpError(r.status)
    ELSE IF ~(ctype_is_feed(r.ctype) \/ body_is_feed(r.body)) THEN <<"not_feed_format">>
    ELSE err

(***************************************************************************)
(* What the fetch session gets back for a feed URL: a response with its    *)
(* status and the parsed entries, or a timeout.  bozo marks a document in  *)
(* which feedparser met a parse error, raises one on which aggregate_feed  *)
(* raises.                                                                 *)
(***************************************************************************)
Doc1 == WithTitles(<<Entry(<<60>>, BadStr, << >>, NoStr, FALSE)>>)
Doc2 == WithTitles(<<Entry(<<50>>, BadStr, <<60>>, BadStr, FALSE),
                     Entry(<<66>>, Rfc822(60, 0 - 6), << >>, NoStr, FALSE)>>)

FR_ok(doc)  == [kind |-> "response", status |-> 200, doc |-> doc, bozo |-> FALSE, raises |-> FALSE]
FR_bozo(doc) == [kind |-> "response", status |-> 200, doc |-> doc, bozo |-> TRUE, raises |-> FALSE]
FR_empty    == [kind |-> "response", status |-> 200, doc |-> << >>, bozo |-> FALSE, raises |-> FALSE]
FR_raises   == [kind |-> "response", status |-> 200, doc |-> Doc1, bozo |-> FALSE, raises |-> TRUE]
FR_404      == [kind |-> "response", status |-> 404, doc |-> << >>, bozo |-> FALSE, raises |-> FALSE]
FR_timeout  == [kind |-> "timeout", status |-> 0, doc |-> << >>, bozo |-> FALSE, raises |-> FALSE]

\* RSSFetcher.last_error after fetch_feed returned a feed
bozo_error(r, err) == IF r.bozo THEN <<"bozo_exception">> ELSE err

\* fetch_feed returns a feed
fetch_ok(r) == r.kind = "response" /\ r.status = 200 /\ r.doc # << >>

\* RSSFetcher.last_error as fetch_feed sets it when it returns None
fetch_error(r) ==
    IF r.kind = "timeout" THEN <<"timeout">>
    ELSE IF r.status # 200 THEN HttpError(r.status)
    ELSE <<"empty_or_unparseable">>

(***************************************************************************)
(* The feed-URL cache: whether self.cache has the key 'feed_urls', and the *)
(* mapping it holds under that key.                                        *)
(***************************************************************************)
EmptyDict == [u \in {} |-> u]

\* CacheManager.get_cached_feed_url(site_url): << >> when there is none
get_cached_feed_url(site_url) ==
    IF cache_has_feed_urls /\ site_url \in DOMAIN feed_urls
    THEN <<feed_urls[site_url]>>
    ELSE << >>

\* self.cache['feed_urls'][site_url] = feed_url
dict_put(d, site_url, feed_url) ==
    [u \in (DOMAIN d) \cup {site_url} |-> IF u = site_url THEN feed_url ELSE d[u]]

(***************************************************************************)
(* A task is one thread of control: a site pipeline of the process phase,  *)
(* or a caller of find_feed_url.                                           *)
(***************************************************************************)
NewTask(caller) ==
    [pc |-> "queued", caller |-> caller, base_url |-> [stem |-> "a", slashes |-> 0],
     custom |-> << >>, cached |-> << >>, k |-> 0, feed_url |-> << >>,
     own_error |-> NoError,
     stored |-> FALSE, key_entry |-> << >>, probes |-> << >>, last_probe |-> << >>,
     answer |-> << >>, response |-> << >>]

\* the latest probe of a call: its URL and what _check_feed_url returned
Probed(target, r) == <<[url |-> target, feed |-> is_feed(r)]>>

\* what the check session got back for the latest probe of a call, kept
\* like the log of its probes
LogAnswer(t, r) == IF t.caller # "process_site" THEN <<r>> ELSE t.answer

\* the probes of a call are logged when find_feed_url is called on its own
\* or by get_all_links
LogProbe(t, target, stage, r) ==
    IF t.caller # "process_site"
    THEN Append(t.probes, [url |-> target, stage |-> stage, feed |-> is_feed(r)])
    ELSE t.probes

\* an entry that takes its reason from last_error
NoFeedFailure_with_last_error(i, t) ==
    [id |-> i, url |-> t.base_url, feed_url |-> << >>,
     reason |-> last_error, own |-> <<"no_feed_found">>]

\* the entry of a site whose discovery found nothing
NoFeedFailure(i, t) ==
    [id |-> i, url |-> t.base_url, feed_url |-> << >>,
     reason |-> <<"no_feed_found">>, own |-> <<"no_feed_found">>]

\* find_feed_url starts with the cache lookup
BeginDiscovery(t, base_url, custom_suffix) ==
    LET cached == get_cached_feed_url(base_url) IN
    [t EXCEPT !.base_url = base_url,
              !.custom = custom_suffix,
              !.cached = cached,
              !.feed_url = cached,
              !.k = 1,
              !.stored = FALSE,
              !.probes = << >>,
              !.last_probe = << >>,
              !.answer = << >>,
              !.key_entry = get_cached_feed_url(cache_key(base_url)),
              !.pc = IF cached # << >> THEN "check_cached"
                     ELSE IF custom_suffix # << >> THEN "check_custom"
                     ELSE "check_suffix"]

\* find_feed_url returns res (<< >> is None) to its caller: process_site
\* goes on to fetch, or records the site as failed
ReturnFrom(i, t, res) ==
    /\ tasks' = [tasks EXCEPT ![i] =
            IF t.caller # "process_site" THEN [t EXCEPT !.pc = "returned", !.feed_url = res]
            ELSE IF res = << >> THEN [t EXCEPT !.pc = "done", !.feed_url = res]
            ELSE [t EXCEPT !.pc = "fetch", !.feed_url = res]]
    /\ failed_sites' =
            IF t.caller = "process_site" /\ res = << >>
            THEN Append(failed_sites, NoFeedFailure(i, t))
            ELSE failed_sites

\* a lookup that trusts the cached URL whatever the probe said
CheckCached_trusting(i) ==
    LET t == tasks[i]
        target == t.feed_url[1]
    IN
    /\ t.pc = "check_cached"
    /\ \E r \in probe_net[target] :
        /\ last_error' = check_error(r, last_error)
        /\ ReturnFrom(i, [t EXCEPT !.probes = LogProbe(t, target, "cached", r),
                                   !.last_probe = Probed(target, r),
                                   !.answer = LogAnswer(t, r)], <<target>>)
    /\ UNCHANGED <<cacheVars, netVars, links, max_workers, waiting, all_sites, final_data, harnessVars, otherVars>>

\* lines 446-451: the cached URL is probed
CheckCached(i) ==
    LET t == tasks[i]
        target == t.feed_url[1]
    IN
    /\ t.pc = "check_cached"
    /\ \E r \in probe_net[target] :
        LET t2 == [t EXCEPT !.probes = LogProbe(t, target, "cached", r),
                            !.last_probe = Probed(target, r),
                            !.answer = LogAnswer(t, r)] IN
        /\ last_error' = check_error(r, last_error)
        /\ IF is_feed(r)
           THEN ReturnFrom(i, t2, <<target>>)
           ELSE /\ tasks' = [tasks EXCEPT ![i] =
                        [t2 EXCEPT !.feed_url = << >>,
                                   !.pc = IF t.custom # << >> THEN "check_custom"
                                          ELSE "check_suffix"]]
                /\ UNCHANGED failed_sites
    /\ UNCHANGED <<cacheVars, netVars, links, max_workers, waiting, all_sites, final_data, harnessVars, otherVars>>

\* lines 456-462: the custom suffix is probed
CheckCustom(i) ==
    LET t == tasks[i]
        target == urljoin(base_url_normalized(t.base_url), t.custom[1])
    IN
    /\ t.pc = "check_custom"
    /\ \E r \in probe_net[target] :
        /\ last_error' = check_error(r, last_error)
        /\ tasks' = [tasks EXCEPT ![i] =
                [t EXCEPT !.probes = LogProbe(t, target, "custom", r),
                          !.last_probe = Probed(target, r),
                          !.answer = LogAnswer(t, r),
                          !.feed_url = IF is_feed(r) THEN <<target>> ELSE << >>,
                          !.pc = IF is_feed(r) THEN "store_check" ELSE "check_suffix"]]
    /\ UNCHANGED <<cacheVars, netVars, links, max_workers, waiting, failed_sites, all_sites,
                   final_data, harnessVars, otherVars>>

\* a loop that records the first candidate whatever the probe said
CheckSuffix_trusting(i) ==
    LET t == tasks[i]
        target == urljoin(base_url_normalized(t.base_url), feed_suffixes[t.k])
    IN
    /\ t.pc = "check_suffix"
    /\ t.k <= Len(feed_suffixes)
    /\ \E r \in probe_net[target] :
        /\ last_error' = check_error(r, last_error)
        /\ tasks' = [tasks EXCEPT ![i] =
                [t EXCEPT !.probes = LogProbe(t, target, "suffix", r),
                          !.last_probe = Probed(target, r),
                          !.answer = LogAnswer(t, r),
                          !.feed_url = <<target>>, !.pc = "store_check"]]
    /\ UNCHANGED <<cacheVars, netVars, links, max_workers, waiting, failed_sites, all_sites,
                   final_data, harnessVars, otherVars>>

\* lines 464-472: the k-th configured suffix is probed
CheckSuffix(i) ==
    LET t == tasks[i]
        target == urljoin(base_url_normalized(t.base_url), feed_suffixes[t.k])
    IN
    /\ t.pc = "check_suffix"
    /\ t.k <= Len(feed_suffixes)
    /\ \E r \in probe_net[target] :
        LET t2 == [t EXCEPT !.probes = LogProbe(t, target, "suffix", r),
                            !.last_probe = Probed(target, r),
                            !.answer = LogAnswer(t, r)] IN
        /\ last_error' = check_error(r, last_error)
        /\ IF is_feed(r)
           THEN /\ tasks' = [tasks EXCEPT ![i] =
                        [t2 EXCEPT !.feed_url = <<target>>, !.pc = "store_check"]]
                /\ UNCHANGED failed_sites
           ELSE IF t.k < Len(feed_suffixes)
                THEN /\ tasks' = [tasks EXCEPT ![i] = [t2 EXCEPT !.k = t.k + 1]]
                     /\ UNCHANGED failed_sites
                ELSE ReturnFrom(i, t2, << >>)
    /\ UNCHANGED <<cacheVars, netVars, links, max_workers, waiting, all_sites, final_data, harnessVars, otherVars>>

\* set_feed_url, line 138: the test for the key 'feed_urls'; when the key
\* is there, line 140 follows at once
StoreCheck(i) ==
    LET t == tasks[i] IN
    /\ t.pc = "store_check"
    /\ IF cache_has_feed_urls
       THEN /\ feed_urls' = dict_put(feed_urls, cache_key(t.base_url), t.feed_url[1])
            /\ UNCHANGED cache_has_feed_urls
            /\ ReturnFrom(i, [t EXCEPT !.stored = TRUE], t.feed_url)
       ELSE /\ tasks' = [tasks EXCEPT ![i] = [t EXCEPT !.pc = "store_create"]]
            /\ UNCHANGED <<cacheVars, failed_sites>>
    /\ UNCHANGED <<netVars, links, max_workers, waiting, last_error, all_sites, final_data, harnessVars, otherVars>>

\* set_feed_url, line 139: self.cache['feed_urls'] = {}
StoreCreate(i) ==
    LET t == tasks[i] IN
    /\ t.pc = "store_create"
    /\ cache_has_feed_urls' = TRUE
    /\ feed_urls' = EmptyDict
    /\ tasks' = [tasks EXCEPT ![i] = [t EXCEPT !.pc = "store_put"]]
    /\ UNCHANGED <<netVars, links, max_workers, waiting, last_error, failed_sites, all_sites,
                   final_data, harnessVars, otherVars>>

\* set_feed_url, line 140, after the key was created
StorePut(i) ==
    LET t == tasks[i] IN
    /\ t.pc = "store_put"
    /\ feed_urls' = dict_put(feed_urls, cache_key(t.base_url), t.feed_url[1])
    /\ UNCHANGED cache_has_feed_urls
    /\ ReturnFrom(i, [t EXCEPT !.stored = TRUE], t.feed_url)
    /\ UNCHANGED <<netVars, links, max_workers, waiting, last_error, all_sites, final_data, harnessVars, otherVars>>


\* no run is going on
RunIdle ==
    /\ cache_has_feed_urls = FALSE
    /\ feed_urls = EmptyDict
    /\ probe_net = EmptyDict
    /\ fetch_net = EmptyDict
    /\ last_error = NoError
    /\ links = << >>
    /\ max_workers = 0
    /\ waiting = FALSE
    /\ tasks = << >>
    /\ failed_sites = << >>
    /\ all_sites = << >>
    /\ final_data = << >>
    /\ first_run = << >>
    /\ loaded_cache = [has |-> FALSE, dict |-> EmptyDict]
    /\ history = << >>

\* get_all_links is not running
CollectIdle ==
    /\ scraped_links = << >>
    /\ manual_links = << >>
    /\ url_set = {}
    /\ cursor = 0

\* parse_feed_time is not called on its own
TimeIdle ==
    /\ time_tuple = << >>
    /\ original_time_str = << >>
    /\ parsed_time = << >>
    /\ time_pc = "idle"

\* the filter is not in use
FilterIdle ==
    /\ TimeIdle
    /\ CollectIdle
    /\ block_sites = << >>
    /\ reverse = FALSE
    /\ url = << >>
    /\ blocked = FALSE
    /\ filter_pc = "idle"

\* the aggregator is not in use
AggIdle ==
    /\ max_posts = 5
    /\ outdate_days = 180
    /\ timezone_correction = TRUE
    /\ sort_by = "pub_date"
    /\ cutoff_time = << >>
    /\ clock = 0
    /\ entries = << >>
    /\ site_posts = << >>
    /\ agg_pc = "idle"

\* the aggregator as FriendRSSAggregator.__init__ builds it from a
\* configuration that sets none of its options
AggBuilt ==
    /\ max_posts = 5
    /\ outdate_days = 180
    /\ timezone_correction = TRUE
    /\ sort_by = "pub_date"
    /\ cutoff_time = CutoffOf(outdate_days, BuiltAt)
    /\ clock = BuiltAt
    /\ entries = << >>
    /\ site_posts = << >>
    /\ agg_pc = "idle"

AggInit ==
    /\ max_posts \in {0, 1, 2}
    /\ outdate_days \in {0 - 1, 0, 1}
    /\ timezone_correction \in BOOLEAN
    /\ sort_by \in {"pub_date", "updated_at"}
    /\ cutoff_time = CutoffOf(outdate_days, BuiltAt)
    /\ clock \in BuiltAt..(BuiltAt + MaxClockDrift)
    /\ entries \in Feeds(EntryShapes, MaxEntries)
    /\ site_posts = << >>
    /\ agg_pc = "call"
    /\ FilterIdle
    /\ RunIdle

\* one call of DataAggregator.aggregate_feed
AggregateCall ==
    /\ agg_pc = "call"
    /\ agg_pc' = "done"
    /\ site_posts' = aggregate_feed(entries, clock)
    /\ UNCHANGED <<aggConfVars, clock, entries>>
    /\ UNCHANGED <<filterVars, timeVars, collectVars, cacheVars, netVars, runVars, harnessVars>>

AggNext == AggregateCall

SpecAgg == AggInit /\ [][AggNext]_vars

----------------------------------------------------------------------------
\* ---- parse_feed_time called on its own ----

\* wall-clock readings written in a raw string, and the offsets it carries
RawWalls == {44, 60}
RawOffsets == {0 - 6, 0, 8, 9}

TimeStrings == {NoStr, BadStr} \cup {Rfc822(w, o) : w \in RawWalls, o \in RawOffsets}

TimeTuples == {<< >>, <<36>>, <<50>>, <<60>>, <<66>>}

TimeInit ==
    /\ time_tuple \in TimeTuples
    /\ original_time_str \in TimeStrings
    /\ parsed_time = << >>
    /\ time_pc = "call"
    /\ timezone_correction \in BOOLEAN
    /\ clock \in BuiltAt..(BuiltAt + MaxClockDrift)
    /\ max_posts = 5
    /\ outdate_days = 180
    /\ sort_by = "pub_date"
    /\ cutoff_time = << >>
    /\ entries = << >>
    /\ site_posts = << >>
    /\ agg_pc = "idle"
    /\ block_sites = << >>
    /\ reverse = FALSE
    /\ url = << >>
    /\ blocked = FALSE
    /\ filter_pc = "idle"
    /\ CollectIdle
    /\ RunIdle

\* one call of parse_feed_time(time_tuple, timezone_correction, original_time_str)
ParseFeedTimeCall ==
    /\ time_pc = "call"
    /\ time_pc' = "done"
    /\ parsed_time' = <<parse_feed_time(time_tuple, timezone_correction, original_time_str, clock)>>
    /\ UNCHANGED <<time_tuple, original_time_str>>
    /\ UNCHANGED <<filterVars, aggVars, collectVars, cacheVars, netVars, runVars, harnessVars>>

TimeNext == ParseFeedTimeCall

SpecTime == TimeInit /\ [][TimeNext]_vars

----------------------------------------------------------------------------
\* ---- the filter called on its own ----

PatternLists == UNION {[1..n -> FilterPatterns] : n \in 0..MaxPatterns}

FilterInit ==
    /\ block_sites \in PatternLists
    /\ reverse \in BOOLEAN
    /\ url \in FilterUrls
    /\ blocked = FALSE
    /\ filter_pc = "call"
    /\ TimeIdle
    /\ CollectIdle
    /\ AggIdle
    /\ RunIdle

\* one call of SiteFilter.is_blocked(url)
IsBlockedCall ==
    /\ filter_pc = "call"
    /\ filter_pc' = "done"
    /\ blocked' = is_blocked(block_sites, reverse, url)
    /\ UNCHANGED <<block_sites, reverse, url>>
    /\ UNCHANGED <<aggVars, timeVars, collectVars, cacheVars, netVars, runVars, harnessVars>>

FilterNext == IsBlockedCall

SpecFilter == FilterInit /\ [][FilterNext]_vars

----------------------------------------------------------------------------
(***************************************************************************)
(* FriendRSSAggregator: the process phase of run, and the merge.           *)
(***************************************************************************)
\* the tasks that a worker is running
Running == {j \in DOMAIN tasks : tasks[j].pc \notin {"queued", "done"}}

\* a pool that is also used when max_workers is 0
PoolHasRoom_zero_pool == Cardinality(Running) < max_workers

\* lines 839-862: a pool of max_workers threads, or the plain loop when
\* max_workers is 0
PoolHasRoom ==
    IF max_workers > 0 THEN Cardinality(Running) < max_workers ELSE Running = {}

\* process_site, lines 772-781: the next link in line is taken up; its
\* feed URL is used when it has one, else find_feed_url is called
Start(i) ==
    LET t == tasks[i] IN
    /\ final_data = << >>
    /\ t.caller = "process_site"
    /\ t.pc = "queued"
    /\ \A j \in DOMAIN tasks : j < i => tasks[j].pc # "queued"
    /\ PoolHasRoom
    /\ tasks' = [tasks EXCEPT ![i] =
            IF links[i].feed_url # << >>
            THEN [t EXCEPT !.base_url = links[i].url,
                           !.feed_url = links[i].feed_url,
                           !.pc = "fetch"]
            ELSE BeginDiscovery(t, links[i].url, links[i].feed_suffix)]
    /\ UNCHANGED <<cacheVars, netVars, links, max_workers, waiting, last_error, failed_sites,
                   all_sites, final_data, harnessVars, otherVars>>

\* the entry process_site appends when fetch_feed returned None
FetchFailure(i, t) ==
    [id |-> i, url |-> links[i].url, feed_url |-> t.feed_url,
     reason |-> last_error, own |-> t.own_error]

\* the entry the except clause of process_site appends
ExceptionFailure(i) ==
    [id |-> i, url |-> links[i].url, feed_url |-> links[i].feed_url,
     reason |-> <<"exception">>, own |-> <<"exception">>]

\* the site record aggregate_feed builds
SiteData(i, t, doc) ==
    [id |-> i, name |-> links[i].name, url |-> links[i].url, avatar |-> links[i].avatar,
     feed_url |-> t.feed_url[1], posts |-> aggregate_feed(doc, clock)]

\* process_site, lines 794-815: fetch_feed, which leaves its reason in
\* last_error when it fails, and on success aggregate_feed; the site
\* record is appended to all_sites when the task completes
Fetch(i) ==
    LET t == tasks[i] IN
    /\ t.pc = "fetch"
    /\ \E r \in fetch_net[t.feed_url[1]] :
        LET t2 == [t EXCEPT !.response = <<r>>] IN
        IF ~fetch_ok(r)
        THEN /\ last_error' = fetch_error(r)
             /\ tasks' = [tasks EXCEPT ![i] =
                     [t2 EXCEPT !.pc = "fetch_failed", !.own_error = fetch_error(r)]]
             /\ UNCHANGED <<failed_sites, all_sites>>
        ELSE IF r.raises
        THEN /\ last_error' = bozo_error(r, last_error)
             /\ failed_sites' = Append(failed_sites, ExceptionFailure(i))
             /\ tasks' = [tasks EXCEPT ![i] = [t2 EXCEPT !.pc = "done"]]
             /\ UNCHANGED all_sites
        ELSE /\ last_error' = bozo_error(r, last_error)
             /\ all_sites' = Append(all_sites, SiteData(i, t, r.doc))
             /\ tasks' = [tasks EXCEPT ![i] = [t2 EXCEPT !.pc = "done"]]
             /\ UNCHANGED failed_sites
    /\ UNCHANGED <<cacheVars, netVars, links, max_workers, waiting, final_data, harnessVars, otherVars>>

\* a handler that forgets the entry
RecordFetchFailure_dropped(i) ==
    LET t == tasks[i] IN
    /\ t.pc = "fetch_failed"
    /\ tasks' = [tasks EXCEPT ![i] = [t EXCEPT !.pc = "done"]]
    /\ UNCHANGED <<cacheVars, netVars, links, max_workers, waiting, last_error, failed_sites,
                   all_sites, final_data, harnessVars, otherVars>>

\* process_site, lines 796-804: last_error is read and the failure recorded
RecordFetchFailure(i) ==
    LET t == tasks[i] IN
    /\ t.pc = "fetch_failed"
    /\ failed_sites' = Append(failed_sites, FetchFailure(i, t))
    /\ tasks' = [tasks EXCEPT ![i] = [t EXCEPT !.pc = "done"]]
    /\ UNCHANGED <<cacheVars, netVars, links, max_workers, waiting, last_error, all_sites,
                   final_data, harnessVars, otherVars>>

\* the lists that hold the elements of s in some order
Orderings(s) == {[n \in DOMAIN s |-> s[f[n]]] : f \in Permutations(DOMAIN s)}

\* run, lines 845-852: every link is submitted and as_completed is called.
\* It yields first the futures that are finished by now, in the order of
\* iteration of a set of them, then the others as they finish; run appends
\* the site data in the order it gets them
AsCompleted ==
    /\ max_workers > 0
    /\ ~waiting
    /\ final_data = << >>
    /\ \A j \in DOMAIN tasks : tasks[j].caller = "process_site"
    /\ waiting' = TRUE
    /\ all_sites' \in Orderings(all_sites)
    /\ UNCHANGED <<cacheVars, netVars, links, max_workers, tasks, last_error,
                   failed_sites, final_data, harnessVars, otherVars>>

\* a merge that leaves the avatar of the site out
TagPost_without_avatar(site, post) ==
    [title |-> post.title, link |-> post.link, description |-> post.description,
     pub_date |-> post.pub_date, updated_at |-> post.updated_at, author |-> post.author,
     site_name |-> site.name, site_url |-> site.url, avatar |-> << >>]

\* merge_data, lines 631-636: the tags are written into the post itself
TagPost(site, post) ==
    [title |-> post.title, link |-> post.link, description |-> post.description,
     pub_date |-> post.pub_date, updated_at |-> post.updated_at, author |-> post.author,
     site_name |-> site.name, site_url |-> site.url, avatar |-> site.avatar]

TaggedPosts(site) == [n \in 1..Len(site.posts) |-> TagPost(site, site.posts[n])]

RECURSIVE Flatten(_, _)
Flatten(sites, k) ==
    IF k > Len(sites) THEN << >>
    ELSE TaggedPosts(sites[k]) \o Flatten(sites, k + 1)

\* DataAggregator.merge_data together with line 867
merge_data(sites, failed) ==
    LET all_posts == SortDesc(Flatten(sites, 1)) IN
    [total_sites |-> Len(sites),
     total_posts |-> Len(all_posts),
     sites |-> [k \in 1..Len(sites) |-> [sites[k] EXCEPT !.posts = TaggedPosts(sites[k])]],
     all_posts |-> all_posts,
     failed_sites |-> failed]

\* a run that merges as soon as one task has finished
Merge_early ==
    /\ final_data = << >>
    /\ \E j \in DOMAIN tasks : tasks[j].pc = "done"
    /\ final_data' = <<merge_data(all_sites, failed_sites)>>
    /\ UNCHANGED <<cacheVars, netVars, links, max_workers, waiting, tasks, last_error,
                   failed_sites, all_sites, harnessVars, otherVars>>

\* run, lines 864-876: every task has finished and, with a pool, the loop
\* over as_completed has taken every result; the data is merged
Merge ==
    /\ final_data = << >>
    /\ \A j \in DOMAIN tasks : tasks[j].pc = "done"
    /\ max_workers > 0 => waiting
    /\ final_data' = <<merge_data(all_sites, failed_sites)>>
    /\ UNCHANGED <<cacheVars, netVars, links, max_workers, waiting, tasks, last_error,
                   failed_sites, all_sites, harnessVars, otherVars>>

\* ---- inputs of the process phase ----

\* most links collected
MaxLinks == 2

\* largest worker pool
MaxWorkers == 2

\* a collected link: a scraped link, or a manual one without a feed suffix,
\* has the feed URL discovery found for it, if any
Link(n, u, f) ==
    [name |-> n, url |-> u, avatar |-> <<n>>, feed_suffix |-> << >>, feed_url |-> f]

Distinct(us) == \A m, n \in DOMAIN us : m # n => us[m] # us[n]

\* the link lists get_all_links can return: the URLs differ as strings
LinkLists(urls, paths) ==
    UNION { { [n \in 1..len |-> Link(n, us[n], fs[n])] :
                us \in {x \in [1..len -> urls] : Distinct(x)},
                fs \in [1..len -> {<< >>} \cup {<<p>> : p \in paths}] }
            : len \in 1..MaxLinks }

WithFeedUrls(ls) ==
    [n \in DOMAIN ls |->
        [ls[n] EXCEPT !.feed_url =
            IF ls[n].feed_url = << >> THEN << >>
            ELSE <<urljoin(base_url_normalized(ls[n].url), ls[n].feed_url[1])>>]]

\* the cache as _load_cache returns it: without the key feed_urls, or with
\* a mapping of at most one entry
LoadedCaches(urls, paths) ==
    {[has |-> FALSE, dict |-> EmptyDict], [has |-> TRUE, dict |-> EmptyDict]}
    \cup {[has |-> TRUE, dict |-> dict_put(EmptyDict, u, urljoin(u, p))] :
            u \in urls, p \in paths}

ProcessInit(linkLists, caches, workers, probes, fetches) ==
    /\ links \in linkLists
    /\ max_workers \in workers
    /\ waiting = FALSE
    /\ tasks = [n \in DOMAIN links |-> NewTask("process_site")]
    /\ loaded_cache \in caches
    /\ cache_has_feed_urls = loaded_cache.has
    /\ feed_urls = loaded_cache.dict
    /\ last_error = NoError
    /\ failed_sites = << >>
    /\ all_sites = << >>
    /\ final_data = << >>
    /\ first_run = << >>
    /\ history = << >>
    /\ probe_net \in probes
    /\ fetch_net \in fetches
    /\ FilterIdle
    /\ AggBuilt

\* ---- the process phase with a network that may answer anything ----

RunUrls == {[stem |-> "a", slashes |-> 0], [stem |-> "a", slashes |-> MaxSlash],
            [stem |-> "b", slashes |-> 0]}

Init ==
    ProcessInit({WithFeedUrls(l) : l \in LinkLists(RunUrls, {"feed"})},
                LoadedCaches({[stem |-> "a", slashes |-> 0]}, {"atom.xml"}),
                0..MaxWorkers,
                {[f \in FeedUrls |-> {PR_feed, PR_404}]},
                {[f \in FeedUrls |-> {FR_ok(Doc1), FR_bozo(Doc1), FR_empty, FR_timeout,
                                      FR_404, FR_raises}]})

Next ==
    \/ Merge
    \/ AsCompleted
    \/ \E i \in DOMAIN tasks : Start(i)
    \/ \E i \in DOMAIN tasks : CheckCached(i)
    \/ \E i \in DOMAIN tasks : CheckSuffix(i)
    \/ \E i \in DOMAIN tasks : StoreCheck(i)
    \/ \E i \in DOMAIN tasks : StoreCreate(i)
    \/ \E i \in DOMAIN tasks : StorePut(i)
    \/ \E i \in DOMAIN tasks : Fetch(i)
    \/ \E i \in DOMAIN tasks : RecordFetchFailure(i)

Spec == Init /\ [][Next]_vars

\* every request ends, at the latest by its timeout, and a thread that can
\* take a step takes it
LiveSpec == Spec /\ WF_vars(Next)

\* ---- the process phase run twice over the same input ----

\* the same links are processed again from the same loaded cache, by a
\* larger pool; what the first run returned is kept
SecondRun ==
    /\ final_data # << >>
    /\ first_run = << >>
    /\ first_run' = final_data
    /\ max_workers' \in 2..MaxWorkers
    /\ waiting' = FALSE
    /\ tasks' = [n \in DOMAIN links |-> NewTask("process_site")]
    /\ cache_has_feed_urls' = loaded_cache.has
    /\ feed_urls' = loaded_cache.dict
    /\ last_error' = NoError
    /\ failed_sites' = << >>
    /\ all_sites' = << >>
    /\ final_data' = << >>
    /\ UNCHANGED <<netVars, links, loaded_cache, history, otherVars>>

FixedUrls == RunUrls

\* every feed URL has one fixed answer: any for the URLs of stem a, a feed
\* for those of stem b
FixedProbeNets ==
    {[f \in FeedUrls |-> IF f.stem = "a" THEN {g[f.path]} ELSE {PR_feed}] :
        g \in [FeedPaths -> {PR_feed, PR_404}]}

FixedFetchNets ==
    {[f \in FeedUrls |-> IF f.stem = "a" THEN {g[f.path]} ELSE {FR_ok(Doc2)}] :
        g \in [FeedPaths -> {FR_ok(Doc1), FR_ok(Doc2), FR_timeout}]}

FixedInit ==
    ProcessInit({WithFeedUrls(l) : l \in LinkLists(FixedUrls, {"feed"})},
                LoadedCaches({[stem |-> "a", slashes |-> 0]}, {"atom.xml"}),
                {1},
                FixedProbeNets,
                FixedFetchNets)

FixedNext == Next \/ SecondRun

SpecFixed == FixedInit /\ [][FixedNext]_vars

\* ---- run called again on the same FriendRSSAggregator ----

\* run is called a second time: all_sites is a fresh list, while the
\* orchestrator keeps its failed_sites, its cache and its fetcher; the
\* links are collected as before; what the first call returned is kept
RunAgain ==
    /\ final_data # << >>
    /\ first_run = << >>
    /\ first_run' = final_data
    /\ tasks' = [n \in DOMAIN links |-> NewTask("process_site")]
    /\ all_sites' = << >>
    /\ waiting' = FALSE
    /\ final_data' = << >>
    /\ UNCHANGED <<cacheVars, netVars, links, max_workers, last_error, failed_sites,
                   loaded_cache, history, otherVars>>

AgainInit ==
    ProcessInit({WithFeedUrls(l) : l \in LinkLists(RunUrls, {"feed"})},
                {[has |-> FALSE, dict |-> EmptyDict], [has |-> TRUE, dict |-> EmptyDict]},
                {0, MaxWorkers},
                {[f \in FeedUrls |-> {PR_feed, PR_404}]},
                {[f \in FeedUrls |-> {FR_ok(Doc1), FR_timeout}]})

AgainNext == Next \/ RunAgain

SpecAgain == AgainInit /\ [][AgainNext]_vars

\* ---- find_feed_url called again and again ----

\* most calls of find_feed_url
MaxCalls == 2

\* what a candidate can answer to a probe
ProbeAnswers ==
    {PR_atom, PR_sniffed, PR_in_time, PR_late, PR_500_xml, PR_timeout}

DiscInit ==
    /\ links = << >>
    /\ max_workers = 0
    /\ waiting = FALSE
    /\ tasks = <<NewTask("driver")>>
    /\ loaded_cache \in LoadedCaches(SiteUrls, {"atom.xml"})
    /\ cache_has_feed_urls = loaded_cache.has
    /\ feed_urls = loaded_cache.dict
    /\ last_error = NoError
    /\ failed_sites = << >>
    /\ all_sites = << >>
    /\ final_data = << >>
    /\ first_run = << >>
    /\ history = << >>
    /\ probe_net = [f \in FeedUrls |-> ProbeAnswers]
    /\ fetch_net = [f \in FeedUrls |-> {}]
    /\ FilterIdle
    /\ AggIdle

\* find_feed_url(base_url, custom_suffix) is called
DiscoverCall(base_url, custom_suffix) ==
    /\ tasks[1].pc = "queued"
    /\ Len(history) < MaxCalls
    /\ tasks' = [tasks EXCEPT ![1] = BeginDiscovery(tasks[1], base_url, custom_suffix)]
    /\ UNCHANGED <<cacheVars, netVars, links, max_workers, waiting, last_error, failed_sites,
                   all_sites, final_data, harnessVars, otherVars>>

\* the call has returned; what it did is written down
DiscoverReturn ==
    LET t == tasks[1] IN
    /\ t.pc = "returned"
    /\ history' = Append(history,
            [base_url |-> t.base_url, custom |-> t.custom, cached |-> t.cached,
             probes |-> t.probes, answer |-> t.answer, last_error |-> last_error,
             result |-> t.feed_url, stored |-> t.stored, key_entry |-> t.key_entry])
    /\ tasks' = [tasks EXCEPT ![1] = NewTask("driver")]
    /\ UNCHANGED <<cacheVars, netVars, links, max_workers, waiting, last_error, failed_sites,
                   all_sites, final_data, first_run, loaded_cache, otherVars>>

DiscNext ==
    \/ \E u \in SiteUrls, c \in {<< >>, <<CustomSuffix>>} : DiscoverCall(u, c)
    \/ CheckCached(1)
    \/ CheckCustom(1)
    \/ CheckSuffix(1)
    \/ StoreCheck(1)
    \/ StoreCreate(1)
    \/ StorePut(1)
    \/ DiscoverReturn

SpecDiscover == DiscInit /\ [][DiscNext]_vars


\* ---- the process phase over links whose feeds all arrive ----

\* the documents a feed URL can hold: one or two entries whose publication
\* and update times differ
MergeShapes ==
    { Entry(<<40>>, BadStr, << >>, NoStr, FALSE),
      Entry(<<50>>, BadStr, <<60>>, BadStr, FALSE),
      Entry(<<66>>, Rfc822(60, 0 - 6), << >>, NoStr, FALSE),
      Entry(<<36>>, Rfc822(44, 8), <<60>>, BadStr, FALSE) }

MergeDocs == Feeds(MergeShapes, 2)

\* two sites, each with a feed URL from collection; any configuration of
\* the aggregator; the serial loop or a pool
MergeInit ==
    /\ links = WithFeedUrls(<<Link(1, [stem |-> "a", slashes |-> 0], <<"feed">>),
                              Link(2, [stem |-> "b", slashes |-> 0], <<"feed">>)>>)
    /\ max_workers \in {0, MaxWorkers}
    /\ waiting = FALSE
    /\ tasks = [n \in DOMAIN links |-> NewTask("process_site")]
    /\ loaded_cache = [has |-> TRUE, dict |-> EmptyDict]
    /\ cache_has_feed_urls = loaded_cache.has
    /\ feed_urls = loaded_cache.dict
    /\ last_error = NoError
    /\ failed_sites = << >>
    /\ all_sites = << >>
    /\ final_data = << >>
    /\ first_run = << >>
    /\ history = << >>
    /\ probe_net = [f \in FeedUrls |-> {PR_feed}]
    /\ \E da, db \in MergeDocs :
          fetch_net = [f \in FeedUrls |-> IF f.stem = "a" THEN {FR_ok(da)} ELSE {FR_ok(db)}]
    /\ max_posts \in {0, 1, 5}
    /\ outdate_days = 180
    /\ timezone_correction \in BOOLEAN
    /\ sort_by \in {"pub_date", "updated_at"}
    /\ cutoff_time = CutoffOf(outdate_days, BuiltAt)
    /\ clock = BuiltAt
    /\ entries = << >>
    /\ site_posts = << >>
    /\ agg_pc = "idle"
    /\ FilterIdle

MergeNext ==
    \/ Merge
    \/ AsCompleted
    \/ \E i \in DOMAIN tasks : Start(i)
    \/ \E i \in DOMAIN tasks : Fetch(i)

SpecMerge == MergeInit /\ [][MergeNext]_vars


----------------------------------------------------------------------------
(***************************************************************************)
(* FriendRSSAggregator.get_all_links, and run as a whole: the links are    *)
(* collected by one thread, then processed, then merged.                   *)
(***************************************************************************)
\* the characters of a site URL, as the filter sees them
UrlChars(u) == <<u.stem>> \o [n \in 1..u.slashes |-> "/"]

\* get_all_links is running: the only thread is the collecting one
Collecting == Len(tasks) = 1 /\ tasks[1].caller = "collect"

\* a scraped link has no feed suffix
ScrapedLinkOf(n, u) == [name |-> n, url |-> u, avatar |-> <<n>>, feed_suffix |-> << >>]

\* the link the cursor is at
LinkAtCursor ==
    IF cursor <= Len(scraped_links)
    THEN scraped_links[cursor]
    ELSE manual_links[cursor - Len(scraped_links)]

\* the first collected link whose URL equals u up to trailing slashes;
\* 0 when there is none
existing_link(u) ==
    LET same == {k \in DOMAIN links : rstrip_slash(links[k].url) = rstrip_slash(u)} IN
    IF same = {} THEN 0 ELSE CHOOSE k \in same : \A j \in same : k <= j

\* a collector that does not ask the filter
ScrapedLink_unfiltered ==
    /\ Collecting
    /\ tasks[1].pc = "queued"
    /\ cursor <= Len(scraped_links)
    /\ LET link == scraped_links[cursor] IN
       IF link.url \in url_set
       THEN /\ cursor' = cursor + 1
            /\ UNCHANGED tasks
       ELSE /\ tasks' = <<BeginDiscovery(tasks[1], link.url, << >>)>>
            /\ UNCHANGED cursor
    /\ UNCHANGED <<scraped_links, manual_links, url_set, cacheVars, netVars, links,
                   max_workers, waiting, last_error, failed_sites, all_sites, final_data,
                   harnessVars, filterVars, aggVars, timeVars>>

\* lines 699-714: the next scraped link is dropped when the filter blocks it
\* or its URL is in url_set; else find_feed_url is called for it
ScrapedLink ==
    /\ Collecting
    /\ tasks[1].pc = "queued"
    /\ cursor <= Len(scraped_links)
    /\ LET link == scraped_links[cursor] IN
       IF is_blocked(block_sites, reverse, UrlChars(link.url)) \/ link.url \in url_set
       THEN /\ cursor' = cursor + 1
            /\ UNCHANGED tasks
       ELSE /\ tasks' = <<BeginDiscovery(tasks[1], link.url, << >>)>>
            /\ UNCHANGED cursor
    /\ UNCHANGED <<scraped_links, manual_links, url_set, cacheVars, netVars, links,
                   max_workers, waiting, last_error, failed_sites, all_sites, final_data,
                   harnessVars, filterVars, aggVars, timeVars>>

\* lines 726-761: the next manual link overrides or is dropped when a
\* collected link has its URL up to trailing slashes; else it gets its feed
\* URL from its suffix, or find_feed_url is called for it
ManualLink ==
    /\ Collecting
    /\ tasks[1].pc = "queued"
    /\ cursor > Len(scraped_links)
    /\ cursor <= Len(scraped_links) + Len(manual_links)
    /\ LET link == manual_links[cursor - Len(scraped_links)]
           k == existing_link(link.url)
       IN
       IF k # 0
       THEN /\ links' = IF link.feed_suffix # << >>
                        THEN [links EXCEPT
                                ![k].feed_url = <<urljoin(base_url_normalized(links[k].url),
                                                          link.feed_suffix[1])>>,
                                ![k].name = link.name,
                                ![k].avatar = IF link.avatar # << >> THEN link.avatar
                                              ELSE links[k].avatar]
                        ELSE links
            /\ cursor' = cursor + 1
            /\ UNCHANGED <<tasks, url_set>>
       ELSE IF link.feed_suffix # << >>
       THEN /\ links' = Append(links,
                    [name |-> link.name, url |-> link.url, avatar |-> link.avatar,
                     feed_suffix |-> link.feed_suffix,
                     feed_url |-> <<urljoin(base_url_normalized(link.url), link.feed_suffix[1])>>])
            /\ url_set' = url_set \cup {link.url}
            /\ cursor' = cursor + 1
            /\ UNCHANGED tasks
       ELSE /\ tasks' = <<BeginDiscovery(tasks[1], link.url, << >>)>>
            /\ UNCHANGED <<links, url_set, cursor>>
    /\ UNCHANGED <<scraped_links, manual_links, cacheVars, netVars,
                   max_workers, waiting, last_error, failed_sites, all_sites, final_data,
                   harnessVars, filterVars, aggVars, timeVars>>

\* lines 710-721 and 759-765: find_feed_url has returned; the link is
\* appended, with the feed URL when one was found
CollectReturn ==
    LET t == tasks[1] IN
    /\ Collecting
    /\ t.pc = "returned"
    /\ links' = Append(links,
            [name |-> LinkAtCursor.name, url |-> LinkAtCursor.url,
             avatar |-> LinkAtCursor.avatar,
             feed_suffix |-> LinkAtCursor.feed_suffix, feed_url |-> t.feed_url])
    /\ url_set' = url_set \cup {LinkAtCursor.url}
    /\ cursor' = cursor + 1
    /\ history' = Append(history,
            [base_url |-> t.base_url, custom |-> t.custom, cached |-> t.cached,
             probes |-> t.probes, answer |-> t.answer, last_error |-> last_error,
             result |-> t.feed_url, stored |-> t.stored, key_entry |-> t.key_entry])
    /\ tasks' = <<NewTask("collect")>>
    /\ UNCHANGED <<scraped_links, manual_links, cacheVars, netVars,
                   max_workers, waiting, last_error, failed_sites, all_sites, final_data,
                   first_run, loaded_cache, filterVars, aggVars, timeVars>>

\* run, lines 834-862: get_all_links has returned; one pipeline per link
BeginProcess ==
    /\ Collecting
    /\ tasks[1].pc = "queued"
    /\ cursor > Len(scraped_links) + Len(manual_links)
    /\ tasks' = [n \in DOMAIN links |-> NewTask("process_site")]
    /\ UNCHANGED <<collectVars, cacheVars, netVars, links,
                   max_workers, waiting, last_error, failed_sites, all_sites, final_data,
                   harnessVars, filterVars, aggVars, timeVars>>

\* ---- inputs of a run ----

\* most links scraped, and most links configured by hand
MaxScraped == 2
MaxManual == 1

\* patterns of the filter: every URL of stem a; the URL of stem a that ends
\* in a slash
P_a == <<"a">>
P_a_slash == <<"a", "/">>

ScrapedLists ==
    UNION { { [n \in 1..len |-> ScrapedLinkOf(n, us[n])] : us \in [1..len -> RunUrls] }
            : len \in 0..MaxScraped }

\* a manual link is named apart from the scraped ones
ManualLists ==
    UNION { { [n \in 1..len |-> [name |-> MaxScraped + n, url |-> us[n],
                                    avatar |-> <<MaxScraped + n>>, feed_suffix |-> fs[n]]] :
                us \in [1..len -> RunUrls],
                fs \in [1..len -> {<< >>, <<CustomSuffix>>}] }
            : len \in 0..MaxManual }

RunInit ==
    /\ scraped_links \in ScrapedLists
    /\ manual_links \in ManualLists
    /\ url_set = {}
    /\ cursor = 1
    /\ block_sites \in {<< >>, <<P_a>>, <<P_a_slash>>}
    /\ reverse \in BOOLEAN
    /\ url = << >>
    /\ blocked = FALSE
    /\ filter_pc = "idle"
    /\ TimeIdle
    /\ AggBuilt
    /\ links = << >>
    /\ max_workers \in {0, MaxWorkers}
    /\ waiting = FALSE
    /\ tasks = <<NewTask("collect")>>
    /\ loaded_cache \in {[has |-> FALSE, dict |-> EmptyDict], [has |-> TRUE, dict |-> EmptyDict]}
    /\ cache_has_feed_urls = loaded_cache.has
    /\ feed_urls = loaded_cache.dict
    /\ last_error = NoError
    /\ failed_sites = << >>
    /\ all_sites = << >>
    /\ final_data = << >>
    /\ first_run = << >>
    /\ history = << >>
    /\ probe_net = [f \in FeedUrls |-> {PR_feed, PR_404}]
    /\ fetch_net = [f \in FeedUrls |-> {FR_ok(Doc1), FR_timeout}]

RunNext ==
    \/ ScrapedLink
    \/ ManualLink
    \/ CollectReturn
    \/ BeginProcess
    \/ Merge
    \/ AsCompleted
    \/ \E i \in DOMAIN tasks : Start(i)
    \/ \E i \in DOMAIN tasks : CheckCached(i)
    \/ \E i \in DOMAIN tasks : CheckSuffix(i)
    \/ \E i \in DOMAIN tasks : StoreCheck(i)
    \/ \E i \in DOMAIN tasks : StoreCreate(i)
    \/ \E i \in DOMAIN tasks : StorePut(i)
    \/ \E i \in DOMAIN tasks : Fetch(i)
    \/ \E i \in DOMAIN tasks : RecordFetchFailure(i)

SpecRun == RunInit /\ [][RunNext]_vars


----------------------------------------------------------------------------
(* Properties of link collection and of the run as a whole *)

\* get_all_links has returned
Collected == ~Collecting

\* the scraped links the filter lets through
Unblocked ==
    {n \in DOMAIN scraped_links :
        ~is_blocked(block_sites, reverse, UrlChars(scraped_links[n].url))}

\* the positions in a list of records whose URL equals u up to trailing slashes
SameSite(recs, u) == {k \in DOMAIN recs : rstrip_slash(recs[k].url) = rstrip_slash(u)}

\* the manual links with a feed suffix whose URL, up to a trailing slash, is
\* that of a scraped link that was collected
Overriding ==
    {m \in DOMAIN manual_links :
        /\ manual_links[m].feed_suffix # << >>
        /\ \E n \in Unblocked :
              rstrip_slash(scraped_links[n].url) = rstrip_slash(manual_links[m].url)}

\* C13: when a manual link with a feed suffix has the URL of a collected
\* scraped link up to a trailing slash, the collected links hold exactly one
\* entry for that URL, its feed_url is the manual suffix joined onto the
\* site URL, and the run yields at most one record for that site.
C13_Original ==
    Collected =>
        \A m \in Overriding :
            LET u == manual_links[m].url
                suffix == manual_links[m].feed_suffix[1]
            IN
            /\ Cardinality(SameSite(links, u)) = 1
            /\ \A k \in SameSite(links, u) :
                  links[k].feed_url = <<urljoin(base_url_normalized(links[k].url), suffix)>>
            /\ final_data # << >> =>
                  Cardinality(SameSite(final_data[1].sites, u))
                    + Cardinality(SameSite(final_data[1].failed_sites, u)) <= 1

\* the URLs of the scraped links that the filter blocks and that no manual
\* link has
BlockedOnly ==
    {scraped_links[n].url : n \in (DOMAIN scraped_links) \ Unblocked}
        \ {manual_links[m].url : m \in DOMAIN manual_links}

\* C26: after the collect phase no two collected links have URLs that are
\* equal up to a trailing slash, whether scraped or manual.
C26_Original ==
    Collected =>
        \A m, n \in DOMAIN links :
            m # n => rstrip_slash(links[m].url) # rstrip_slash(links[n].url)

\* C14: a scraped link that the filter blocks, and whose URL no manual link
\* has, is never feed-probed and is in none of sites, all_posts and
\* failed_sites of the snapshot; a manual link is never filtered.
C14_BlockedNowhere ==
    /\ \A u \in BlockedOnly :
          /\ \A h \in DOMAIN history : history[h].base_url # u
          /\ \A k \in DOMAIN links : links[k].url # u
          /\ \A i \in DOMAIN tasks :
                tasks[i].pc \notin {"queued", "done"} => tasks[i].base_url # u
          /\ \A k \in DOMAIN all_sites : all_sites[k].url # u
          /\ \A k \in DOMAIN failed_sites : failed_sites[k].url # u
          /\ final_data # << >> =>
                /\ \A k \in DOMAIN final_data[1].sites : final_data[1].sites[k].url # u
                /\ \A k \in DOMAIN final_data[1].all_posts :
                      final_data[1].all_posts[k].site_url # u
                /\ \A k \in DOMAIN final_data[1].failed_sites :
                      final_data[1].failed_sites[k].url # u
    /\ Collected =>
          \A m \in DOMAIN manual_links : SameSite(links, manual_links[m].url) # {}

\* a finished run in blacklist mode in which the filter blocked the scraped
\* link of stem a, let the one of stem b through, and a manual link whose
\* URL the filter matches was collected all the same
C14_Witness ==
    /\ final_data # << >>
    /\ ~reverse
    /\ block_sites = <<P_a>>
    /\ Len(scraped_links) = 2
    /\ scraped_links[1].url = [stem |-> "a", slashes |-> 0]
    /\ scraped_links[2].url.stem = "b"
    /\ Len(manual_links) = 1
    /\ manual_links[1].url = [stem |-> "a", slashes |-> MaxSlash]
    /\ \E k \in DOMAIN links : links[k].url = manual_links[1].url
    /\ final_data[1].total_sites = 2

\* the keys of the cache whose entry the step writes
Written == {key \in DOMAIN feed_urls' :
                key \notin DOMAIN feed_urls \/ feed_urls[key] # feed_urls'[key]}

\* a thread is inside set_feed_url for this key, and the latest probe of its
\* call of find_feed_url was of this feed URL and found a feed
VerifiedWriter(key, feed_url) ==
    \E i \in DOMAIN tasks :
        /\ tasks[i].pc \in {"store_check", "store_put"}
        /\ cache_key(tasks[i].base_url) = key
        /\ tasks[i].last_probe = <<[url |-> feed_url, feed |-> TRUE]>>

\* C16: during a run every entry written into the feed-URL cache maps a
\* site to a feed URL whose probe succeeded immediately before the write in
\* the same call of find_feed_url; a feed URL built from a manual
\* feed_suffix without a probe is never in the cache.
C16_OnlyVerifiedCached ==
    /\ [][\A key \in Written : VerifiedWriter(key, feed_urls'[key])]_vars
    /\ [](\A key \in DOMAIN feed_urls : feed_urls[key].path # CustomSuffix)

\* a finished run that cached a discovered feed URL and also collected a
\* manual link with its suffix-built feed URL
C16_Witness ==
    /\ final_data # << >>
    /\ feed_urls # EmptyDict
    /\ \E h \in DOMAIN history : history[h].stored
    /\ \E k \in DOMAIN links :
          links[k].feed_suffix # << >> /\ links[k].feed_url[1].path = CustomSuffix

----------------------------------------------------------------------------
(* Properties of the time normalizer *)

\* C12: with the correction off and a raw string that parses, the result
\* carries the digits written in the raw string, labelled UTC+8; neither the
\* offset of the raw string nor the parsed UTC tuple has any influence.
C12_WallClockKept ==
    (time_pc = "done" /\ ~timezone_correction
        /\ original_time_str # NoStr /\ original_time_str[1].ok)
    => parsed_time = <<[wall |-> original_time_str[1].wall, off |-> BEIJING_TZ]>>

\* a call with the correction off on a string written at UTC-6 whose digits
\* differ from those of the UTC tuple that came with it
C12_Witness ==
    /\ time_pc = "done"
    /\ ~timezone_correction
    /\ original_time_str = Rfc822(60, 0 - 6)
    /\ time_tuple = <<66>>
    /\ parsed_time[1].wall = 60

----------------------------------------------------------------------------
(* Properties of discovery, the cache and the process phase *)

Range(s) == {s[n] : n \in DOMAIN s}

\* the positions of the entries of a list of records that belong to link i
EntriesOf(recs, i) == {k \in DOMAIN recs : recs[k].id = i}

\* the cached URL is still valid during the call: every probe of it that
\* the call made was answered with a feed
StillValid(call, f) == \A p \in Range(call.probes) : p.url = f => p.feed

\* C1: once discover(site_url) has succeeded by probing and recorded the
\* feed URL in the cache, a later discover(site_url), made while the record
\* is in the cache and the feed URL still valid, issues exactly one probe,
\* the re-validation of the cached URL, returns that URL and probes no
\* suffix candidate; for site URLs with and without a trailing slash.
C1_Original ==
    \A m, n \in DOMAIN history :
        ( /\ m < n
          /\ history[m].base_url = history[n].base_url
          /\ history[m].stored
          /\ history[n].key_entry = history[m].result
          /\ StillValid(history[n], history[m].result[1]) )
        => /\ history[n].probes =
                <<[url |-> history[m].result[1], stage |-> "cached", feed |-> TRUE]>>
           /\ history[n].result = history[m].result

\* the candidates of a call in the order find_feed_url tries them: the URL
\* the cache lookup returned, the custom-suffix URL, the configured suffixes
Candidates(call) ==
    (IF call.cached # << >>
     THEN <<[url |-> call.cached[1], stage |-> "cached"]>> ELSE << >>)
    \o (IF call.custom # << >>
        THEN <<[url |-> urljoin(base_url_normalized(call.base_url), call.custom[1]),
                stage |-> "custom"]>>
        ELSE << >>)
    \o [n \in 1..Len(feed_suffixes) |->
            [url |-> urljoin(base_url_normalized(call.base_url), feed_suffixes[n]),
             stage |-> "suffix"]]

\* C17: find_feed_url probes the cached URL (if the lookup returned one),
\* then the custom-suffix URL (if given), then the configured suffixes in
\* list order; it stops at the first successful probe and returns exactly
\* that URL; it returns a URL only if a probe of it succeeded in the same
\* call, so a cached URL whose probe fails is not returned and the other
\* candidates follow.
C17_ProbeOrder ==
    \A h \in DOMAIN history :
        LET call == history[h]
            c == Candidates(call)
            p == call.probes
        IN
        /\ Len(p) <= Len(c)
        /\ \A n \in DOMAIN p :
              /\ p[n].url = c[n].url
              /\ p[n].stage = c[n].stage
              /\ n < Len(p) => ~p[n].feed
        /\ call.result # << >> =>
              /\ p # << >>
              /\ p[Len(p)].feed
              /\ call.result = <<p[Len(p)].url>>
        /\ call.result = << >> =>
              /\ Len(p) = Len(c)
              /\ \A n \in DOMAIN p : ~p[n].feed

\* a call whose cached URL and custom-suffix URL both failed the probe and
\* whose second configured suffix was found
C17_Witness ==
    \E h \in DOMAIN history :
        /\ history[h].cached # << >>
        /\ history[h].custom # << >>
        /\ Len(history[h].probes) = 4
        /\ history[h].result = <<urljoin(base_url_normalized(history[h].base_url), feed_suffixes[2])>>
        /\ history[h].result # history[h].cached

\* C18: the configured suffixes are iterated only when no custom suffix is
\* given: a call with a custom suffix probes only the cached URL (if any)
\* and the custom-suffix URL.
C18_Original ==
    \A h \in DOMAIN history :
        history[h].custom # << >> =>
            \A n \in DOMAIN history[h].probes :
                history[h].probes[n].stage \in {"cached", "custom"}

\* err is a reason _check_feed_url gives for a response
OfAResponse(err) == err # NoError /\ err[1] \in {"HTTP", "not_feed_format"}

\* err describes the failure of the probe that was answered with r: the
\* status of a response other than 200, the format of a 200 that is no
\* feed, and for a probe that got no response at all a reason that is not
\* one of a response
Describes(err, r) ==
    IF r.kind # "response" THEN ~OfAResponse(err)
    ELSE IF r.status # 200 THEN err = HttpError(r.status)
    ELSE ~is_feed(r) /\ err = <<"not_feed_format">>

\* C19: when every candidate of a call fails, find_feed_url returns None
\* and last_error describes the failure of the last probe of that call,
\* whatever its kind, not the outcome of an earlier probe or of another
\* call.
C19_Original ==
    \A h \in DOMAIN history :
        history[h].result = << >> =>
            /\ history[h].answer # << >>
            /\ Describes(history[h].last_error, history[h].answer[1])

\* C20: a probe counts a response as a feed exactly when its status is 200
\* and its content-type contains xml, rss or feed or the first 500
\* characters of its body contain <?xml, <rss or <feed, whatever the case of
\* the letters; a probe that times out counts as no feed and the call goes
\* on to its next candidate or returns None.
C20_ProbeClassifies ==
    [][\A i \in DOMAIN tasks :
          (i \in DOMAIN tasks' /\ Len(tasks'[i].probes) = Len(tasks[i].probes) + 1) =>
              LET t == tasks'[i]
                  r == t.answer[1]
                  p == t.probes[Len(t.probes)]
              IN
              /\ p.feed <=> ( /\ r.kind = "response"
                              /\ r.status = 200
                              /\ (ctype_is_feed(r.ctype) \/ body_is_feed(r.body)) )
              /\ p.feed => /\ t.feed_url = <<p.url>>
                           /\ t.pc \in {"store_check", "returned"}
              /\ ~p.feed => /\ t.feed_url = << >>
                            /\ t.pc \in {"check_custom", "check_suffix", "returned"}
      ]_vars

\* a call that took a text/html response starting with <RSS for a feed
\* after a candidate that was none, and a call whose last probe timed out
\* and which returned None
C20_Witness ==
    /\ \E h \in DOMAIN history :
          /\ history[h].answer = <<PR_sniffed>>
          /\ Len(history[h].probes) >= 2
          /\ history[h].result = <<history[h].probes[Len(history[h].probes)].url>>
    /\ \E h \in DOMAIN history :
          /\ history[h].answer = <<PR_timeout>>
          /\ history[h].result = << >>

\* C21: in the process phase a feed is fetched for a site only when a feed
\* URL is known for it, the one its link carries or the one the fallback
\* discovery has just found; a site without a feed URL after the fallback
\* discovery gets exactly one failure record, with reason no_feed_found and
\* no feed URL, no site record, and no fetch is made for it.
C21_FetchNeedsFeedUrl ==
    \A i \in DOMAIN tasks :
        LET t == tasks[i] IN
        t.caller = "process_site" =>
            /\ (t.pc \in {"fetch", "fetch_failed"} \/ t.response # << >>) =>
                  /\ t.feed_url # << >>
                  /\ \/ t.feed_url = links[i].feed_url
                     \/ /\ links[i].feed_url = << >>
                        /\ t.last_probe = <<[url |-> t.feed_url[1], feed |-> TRUE]>>
            /\ (t.pc = "done" /\ t.feed_url = << >>) =>
                  /\ links[i].feed_url = << >>
                  /\ t.response = << >>
                  /\ EntriesOf(all_sites, i) = {}
                  /\ \E k \in DOMAIN failed_sites :
                        /\ EntriesOf(failed_sites, i) = {k}
                        /\ failed_sites[k].reason = <<"no_feed_found">>
                        /\ failed_sites[k].feed_url = << >>

\* one site was left without a feed URL by the fallback discovery while
\* last_error held another reason, and another site was fetched with the
\* feed URL the fallback discovery found
C21_Witness ==
    /\ \E i \in DOMAIN tasks :
          /\ tasks[i].caller = "process_site"
          /\ tasks[i].pc = "done"
          /\ tasks[i].feed_url = << >>
          /\ last_error # NoError
    /\ \E i \in DOMAIN tasks :
          /\ tasks[i].caller = "process_site"
          /\ links[i].feed_url = << >>
          /\ tasks[i].response # << >>

\* the phase a run is in: 1 collecting the links, 2 processing the sites,
\* 3 merged
Phase == IF Collecting THEN 1 ELSE IF final_data = << >> THEN 2 ELSE 3

\* the records of link i among the site records and the failure records
Outcomes(sites, failed, i) ==
    Cardinality(EntriesOf(sites, i)) + Cardinality(EntriesOf(failed, i))

\* C22: a run goes through COLLECT_LINKS, PROCESS_SITES and MERGE in this
\* order and enters none of them again; no site is processed while links
\* are collected and no link is collected afterwards; the merge is made
\* only when every site pipeline has finished and its site record or
\* failure record is there, for the serial loop and for every pool, so
\* that sites and failed_sites of the snapshot hold one record per site.
C22_PhasesInOrder ==
    /\ [][ /\ Phase' >= Phase
           /\ Phase >= 2 => links' = links
           /\ (Phase = 2 /\ Phase' = 3) =>
                 \A i \in DOMAIN links :
                     /\ tasks[i].pc = "done"
                     /\ Outcomes(all_sites, failed_sites, i) = 1 ]_vars
    /\ [](Phase = 1 => all_sites = << >> /\ failed_sites = << >> /\ final_data = << >>)
    /\ [](Phase = 3 =>
             /\ DOMAIN tasks = DOMAIN links
             /\ final_data[1].total_sites + Len(final_data[1].failed_sites) = Len(links)
             /\ \A i \in DOMAIN links :
                   Outcomes(final_data[1].sites, final_data[1].failed_sites, i) = 1)

\* a pool has run two sites, one of which failed, and the run has merged
C22_Witness ==
    /\ Phase = 3
    /\ max_workers > 1
    /\ Len(links) = 2
    /\ final_data[1].total_sites = 1
    /\ Len(final_data[1].failed_sites) = 1

\* C23: when run is called again on the same orchestrator, failed_sites of
\* the snapshot it returns holds only the failure records of the sites that
\* failed during that call: none of an earlier call, and none for a site
\* that succeeds now.
C23_Original ==
    (first_run # << >> /\ final_data # << >>) =>
        \A i \in DOMAIN links :
            Cardinality(EntriesOf(final_data[1].failed_sites, i)) =
                IF EntriesOf(final_data[1].sites, i) = {} THEN 1 ELSE 0

\* the six fields of a post as aggregate_feed made it
PostFields == {"title", "link", "description", "pub_date", "updated_at", "author"}

\* x is post p with the tags of site record s
TaggedFrom(x, s, p) ==
    /\ DOMAIN x = PostFields \cup {"site_name", "site_url", "avatar"}
    /\ \A f \in PostFields : x[f] = p[f]
    /\ x.site_name = s.name
    /\ x.site_url = s.url
    /\ x.avatar = s.avatar

RECURSIVE SumPosts(_, _)
\* the sum of len(posts) over the records from the k-th on
SumPosts(sites, k) ==
    IF k > Len(sites) THEN 0 ELSE Len(sites[k].posts) + SumPosts(sites, k + 1)

\* the posts of the site records, each by its record and its position
PostPlaces(sites) ==
    UNION {{<<k, n>> : n \in DOMAIN sites[k].posts} : k \in DOMAIN sites}

\* C24: merge_data returns total_sites = the number of site records and
\* total_posts = len(all_posts) = the sum of len(posts) over the records;
\* all_posts holds every post of every record exactly once, none lost and
\* none twice, each with the name, the URL and the avatar of its record.
C24_MergeKeepsEveryPost ==
    final_data # << >> =>
        LET fd == final_data[1] IN
        /\ fd.total_sites = Len(all_sites)
        /\ fd.total_posts = Len(fd.all_posts)
        /\ fd.total_posts = SumPosts(all_sites, 1)
        /\ \A x \in Range(fd.all_posts) :
              Cardinality({m \in DOMAIN fd.all_posts : fd.all_posts[m] = x}) =
              Cardinality({pl \in PostPlaces(all_sites) :
                              TaggedFrom(x, all_sites[pl[1]], all_sites[pl[1]].posts[pl[2]])})
        /\ \A pl \in PostPlaces(all_sites) :
              \E m \in DOMAIN fd.all_posts :
                  TaggedFrom(fd.all_posts[m], all_sites[pl[1]], all_sites[pl[1]].posts[pl[2]])

\* two sites with two posts each were merged, and two posts of different
\* sites differ in nothing but their tags
C24_Witness ==
    /\ final_data # << >>
    /\ final_data[1].total_sites = 2
    /\ final_data[1].total_posts = 4
    /\ \E m, n \in DOMAIN final_data[1].all_posts :
          /\ final_data[1].all_posts[m].site_name # final_data[1].all_posts[n].site_name
          /\ \A f \in PostFields : final_data[1].all_posts[m][f] = final_data[1].all_posts[n][f]

\* C25: merge_data leaves the site records unchanged: in the snapshot every
\* post under sites[i].posts has exactly the six fields of a post, and only
\* the entries of all_posts have the tags site_name, site_url and avatar.
C25_Original ==
    final_data # << >> =>
        /\ \A k \in DOMAIN final_data[1].sites :
              \A n \in DOMAIN final_data[1].sites[k].posts :
                  DOMAIN final_data[1].sites[k].posts[n] = PostFields
        /\ \A m \in DOMAIN final_data[1].all_posts :
              DOMAIN final_data[1].all_posts[m] =
                  PostFields \cup {"site_name", "site_url", "avatar"}

\* posts x and y have equal sort keys
Tie(x, y) == ~IsoLess(SortKey(x), SortKey(y)) /\ ~IsoLess(SortKey(y), SortKey(x))

\* where the post x of all_posts comes from: the position of its site in
\* sites and its own position among the posts of that site
PlaceOf(fd, x) ==
    LET k == CHOOSE j \in DOMAIN fd.sites : fd.sites[j].name = x.site_name
        n == CHOOSE j \in DOMAIN fd.sites[k].posts : fd.sites[k].posts[j].title = x.title
    IN <<k, n>>

\* in all_posts, posts with equal sort keys are in the order in which their
\* sites were merged, and those of one site in the order they have there
TiesKeepMergeOrder ==
    final_data # << >> =>
        LET fd == final_data[1] IN
        /\ [k \in DOMAIN fd.sites |-> fd.sites[k].id] =
               [k \in DOMAIN all_sites |-> all_sites[k].id]
        /\ \A m, n \in DOMAIN fd.all_posts :
              (m < n /\ Tie(fd.all_posts[m], fd.all_posts[n])) =>
                  LET pm == PlaceOf(fd, fd.all_posts[m])
                      pn == PlaceOf(fd, fd.all_posts[n])
                  IN pm[1] < pn[1] \/ (pm[1] = pn[1] /\ pm[2] < pn[2])

\* C27: in all_posts, posts with equal sort keys keep the order in which
\* their sites were merged, and posts of one site with equal keys the order
\* they have in that site's posts; under a worker pool the sites are merged
\* in the order in which their tasks completed: the site data of a task is
\* behind those of the tasks that completed before it, and stays there.
C27_Original ==
    /\ []TiesKeepMergeOrder
    /\ [][max_workers > 0 =>
             /\ Len(all_sites) <= Len(all_sites')
             /\ SubSeq(all_sites', 1, Len(all_sites)) = all_sites]_vars

\* C2: after a run every link has exactly one outcome, a site record in
\* sites or a failure record in failed_sites, for every pool size; so
\* total_sites + len(failed_sites) = len(links).
C2_OneOutcomePerLink ==
    final_data # << >> =>
        LET fd == final_data[1] IN
        /\ \A i \in DOMAIN links :
              Cardinality(EntriesOf(fd.sites, i))
                + Cardinality(EntriesOf(fd.failed_sites, i)) = 1
        /\ fd.total_sites + Len(fd.failed_sites) = Len(links)

\* a run with a pool of two that ended with one site and one failed fetch
C2_Witness ==
    /\ final_data # << >>
    /\ max_workers = 2
    /\ Len(links) = 2
    /\ final_data[1].total_sites = 1
    /\ \E k \in DOMAIN failed_sites : failed_sites[k].own = <<"timeout">>

\* C3: under every interleaving, the reason recorded for a site whose
\* fetch failed is the reason of that site's own fetch.
C3_Original ==
    \A k \in DOMAIN failed_sites : failed_sites[k].reason = failed_sites[k].own

\* the links whose feed URL is recorded under the same key as that of link i
SameKeyWriters(i) ==
    {j \in DOMAIN links : cache_key(links[j].url) = cache_key(links[i].url)}

\* C5: when several workers record feed URLs for distinct site URLs, from
\* any loaded cache, no write is lost: after they have all returned, lookup
\* returns the recorded feed URL for each of those site URLs.
C5_Original ==
    (\A j \in DOMAIN tasks : tasks[j].pc = "done") =>
        \A i \in DOMAIN tasks :
            (tasks[i].stored /\ SameKeyWriters(i) = {i})
            => get_cached_feed_url(cache_key(links[i].url)) = tasks[i].feed_url

\* C6: once the links are collected the run always reaches the merge and
\* returns a snapshot, whatever fails; when every site fails the snapshot
\* has total_sites = 0, total_posts = 0 and a failure record for every link.
C6_RunCompletes ==
    /\ <>(final_data # << >>)
    /\ []((final_data # << >> /\ all_sites = << >>) =>
                /\ final_data[1].total_sites = 0
                /\ final_data[1].total_posts = 0
                /\ {final_data[1].failed_sites[k].id :
                        k \in DOMAIN final_data[1].failed_sites} = DOMAIN links)

\* a run of two links that both failed, one at discovery and one at fetch
C6_Witness ==
    /\ final_data # << >>
    /\ Len(links) = 2
    /\ final_data[1].total_sites = 0
    /\ \E k \in DOMAIN failed_sites : failed_sites[k].reason = <<"no_feed_found">>
    /\ \E k \in DOMAIN failed_sites : failed_sites[k].own = <<"timeout">>

\* the posts the snapshot holds for link i, without the tags of the merge
PostsOfLink(fd, i) ==
    UNION { { [title |-> fd.sites[k].posts[n].title,
               pub_date |-> fd.sites[k].posts[n].pub_date,
               updated_at |-> fd.sites[k].posts[n].updated_at] :
                  n \in DOMAIN fd.sites[k].posts }
            : k \in EntriesOf(fd.sites, i) }

\* s is in descending order of the configured sort key
Descending(s) ==
    \A n \in 1..(Len(s) - 1) : ~IsoLess(SortKey(s[n]), SortKey(s[n + 1]))

\* C11: in every site record's posts and in all_posts of the snapshot, the
\* entries are in descending order of the configured sort key: for every
\* adjacent pair (a, b), a[sort_key] >= b[sort_key].
C11_PostsDescending ==
    /\ \A k \in DOMAIN all_sites : Descending(all_sites[k].posts)
    /\ final_data # << >> =>
          /\ Descending(final_data[1].all_posts)
          /\ \A k \in DOMAIN final_data[1].sites : Descending(final_data[1].sites[k].posts)

\* a snapshot sorted by updated_at whose all_posts is not the sites' posts
\* laid end to end, and one of whose sites had its entries reordered
C11_Witness ==
    /\ final_data # << >>
    /\ sort_by = "updated_at"
    /\ Len(final_data[1].all_posts) >= 3
    /\ final_data[1].all_posts # Flatten(all_sites, 1)
    /\ \E k \in DOMAIN all_sites :
          /\ Len(all_sites[k].posts) = 2
          /\ all_sites[k].posts[1].title = 2

\* the response the fetch of link i got
ResponseOf(i) == tasks[i].response[1]

\* C15: fetch reports failure whenever the response status is not 200, the
\* document has a parse error, or parsing yields no entry; the site then
\* gets a failure record and no site record.
C15_Original ==
    \A i \in DOMAIN tasks :
        ( /\ tasks[i].pc = "done"
          /\ tasks[i].response # << >>
          /\ ResponseOf(i).kind = "response"
          /\ (ResponseOf(i).status # 200 \/ ResponseOf(i).bozo \/ ResponseOf(i).doc = << >>) )
        => /\ EntriesOf(failed_sites, i) # {}
           /\ EntriesOf(all_sites, i) = {}

\* C4: over the same links and the same network, a pool of one worker and
\* a larger pool give the same total_sites, the same total_posts and for
\* every site the same set of posts, under every interleaving.
C4_Original ==
    (final_data # << >> /\ first_run # << >>) =>
        LET one == first_run[1]
            many == final_data[1]
        IN
        /\ one.total_sites = many.total_sites
        /\ one.total_posts = many.total_posts
        /\ \A i \in DOMAIN links :
              /\ EntriesOf(one.sites, i) = {} <=> EntriesOf(many.sites, i) = {}
              /\ PostsOfLink(one, i) = PostsOfLink(many, i)


----------------------------------------------------------------------------
(* Properties of the per-site aggregator *)

\* the entries that are handled without an error
WellFormed == {n \in 1..Len(entries) : ~entries[n].malformed}

\* the pub_date the entry gets, as written into its post
PubDateOf(n) == isoformat(PubTime(entries[n], clock))

\* the entries that are handled without an error and are not older than
\* the cutoff
Survivors ==
    {n \in WellFormed :
        cutoff_time = << >> \/ ~IsoLess(PubDateOf(n), isoformat(cutoff_time[1]))}

KeptTitles == {site_posts[n].title : n \in 1..Len(site_posts)}

KeyOfEntry(n) ==
    IF sort_by = "pub_date" THEN PubDateOf(n)
    ELSE isoformat(UpdateTime(entries[n], clock))

Smaller(a, b) == IF a < b THEN a ELSE b

\* C9: with outdate_days > 0 the cutoff is the build time minus
\* outdate_days and no post of the site record has a pub_date earlier than
\* it, whichever sort key is configured; with outdate_days <= 0 there is no
\* cutoff and no entry is dropped for its age.
C9_NoPostOlderThanCutoff ==
    agg_pc = "done" =>
        /\ outdate_days > 0 =>
            /\ cutoff_time = <<[wall |-> BuiltAt + BEIJING_TZ - HoursPerDay * outdate_days,
                                off |-> BEIJING_TZ]>>
            /\ \A n \in 1..Len(site_posts) :
                  ~IsoLess(site_posts[n].pub_date, isoformat(cutoff_time[1]))
        /\ outdate_days <= 0 =>
            /\ cutoff_time = << >>
            /\ Len(site_posts) =
                  IF max_posts > 0 THEN Smaller(max_posts, Cardinality(WellFormed))
                  ELSE Cardinality(WellFormed)

\* a feed with an entry older than the cutoff and a newer one, aggregated
C9_Witness ==
    /\ agg_pc = "done"
    /\ outdate_days > 0
    /\ sort_by = "updated_at"
    /\ Survivors # WellFormed
    /\ site_posts # << >>

\* C10: with max_posts > 0 the site record has at most max_posts posts, and
\* they are the greatest by the configured sort key among the entries that
\* survived the outdate filter; with max_posts = 0 every surviving entry is
\* kept.
C10_KeepsGreatestPosts ==
    agg_pc = "done" =>
        /\ KeptTitles \subseteq Survivors
        /\ Cardinality(KeptTitles) = Len(site_posts)
        /\ \A n \in 1..Len(site_posts) :
              site_posts[n] = MakePost(entries[site_posts[n].title], clock)
        /\ max_posts > 0 =>
            /\ Len(site_posts) = Smaller(max_posts, Cardinality(Survivors))
            /\ \A k \in KeptTitles : \A d \in Survivors \ KeptTitles :
                  ~IsoLess(KeyOfEntry(k), KeyOfEntry(d))
        /\ max_posts = 0 => KeptTitles = Survivors

\* more survivors than max_posts, the greatest of them not first in the feed
C10_Witness ==
    /\ agg_pc = "done"
    /\ max_posts > 0
    /\ Cardinality(Survivors) > max_posts
    /\ \E d \in Survivors \ KeptTitles : \E k \in KeptTitles :
          d < k /\ IsoLess(KeyOfEntry(d), KeyOfEntry(k))

----------------------------------------------------------------------------
(* Properties of the site filter *)

AnyMatch(pats, u) == \E n \in 1..Len(pats) : re_search(pats[n], u)

Reversed(s) == [n \in 1..Len(s) |-> s[Len(s) + 1 - n]]

\* C7: is_blocked(url) is true exactly when some pattern matches in
\* blacklist mode or no pattern matches in whitelist mode; the order of the
\* patterns does not matter, and the empty list gives false in blacklist
\* mode and true in whitelist mode.
C7_IsBlockedCharacterised ==
    filter_pc = "done" =>
        /\ blocked = ( \/ (AnyMatch(block_sites, url) /\ ~reverse)
                       \/ (~AnyMatch(block_sites, url) /\ reverse) )
        /\ is_blocked(Reversed(block_sites), reverse, url) = blocked
        /\ (block_sites = << >> => blocked = reverse)

\* a whitelist call whose second pattern is the first one that matches
C7_Witness ==
    /\ filter_pc = "done"
    /\ blocked = FALSE
    /\ reverse
    /\ Len(block_sites) = 2
    /\ ~re_search(block_sites[1], url)
    /\ re_search(block_sites[2], url)

\* C8 as written: in whitelist mode with the single pattern spam\.example,
\* is_blocked is false for https://other.example/feed and true for
\* https://spam.example/feed.
C8_Original ==
    (filter_pc = "done" /\ reverse /\ block_sites = <<P_spam>>) =>
        /\ (url = U_other => blocked = FALSE)
        /\ (url = U_spam => blocked = TRUE)

\* C8 amended: in whitelist mode with the single pattern spam\.example,
\* is_blocked is true for the non-matching https://other.example/feed and
\* false for the matching https://spam.example/feed.
C8_WhitelistExample ==
    (filter_pc = "done" /\ reverse /\ block_sites = <<P_spam>>) =>
        /\ (url = U_other => blocked = TRUE)
        /\ (url = U_spam => blocked = FALSE)
        /\ re_search(P_spam, U_spam)
        /\ ~re_search(P_spam, U_other)

C8_Witness ==
    /\ filter_pc = "done"
    /\ blocked = FALSE
    /\ reverse
    /\ block_sites = <<P_spam>>
    /\ url = U_spam

====
